---- MODULE Spec2Model ----
(***************************************************************************)
(* Model of twitchdc/api.py: the HelixAPI client.                          *)
(*                                                                         *)
(* One HelixAPI object (self) talks to two servers it does not control:    *)
(* the Helix data endpoints (http.get) and the OAuth token endpoint        *)
(* (http.post).  Every response is an input drawn from a small set.        *)
(*                                                                         *)
(* Python values are kept apart by type where the code compares them:      *)
(* PyInt(0) is the integer 0, PyStr(0) the header text '0', PyNone None.   *)
(* An Optional argument is <<>> (None) or <<v>>; a list of identifiers is  *)
(* kept by its length, the only thing the code reads of it.                *)
(***************************************************************************)
EXTENDS Integers, Sequences, FiniteSets, TLC

\* ---- bounds of the model ------------------------------------------------
MaxTokens == 2        \* credentials the token endpoint mints in one run
MaxRequests == 4      \* network requests (GET and POST) in one public call
MaxPages == 3         \* pages received in one public call
MaxServed == 3        \* most records the server puts in one response
MaxCap == 5           \* largest cap_records tried
MaxPageSize == 2      \* largest max_records_per_page tried
NumThreads == 2       \* threads that refresh the credential at the same time
MaxReset == 2         \* latest Ratelimit-Reset tried, in seconds
MaxNow == 25          \* the clock stops here, in tenths of a second

\* ---- Python values -------------------------------------------------------
PyNone == [t |-> "None", v |-> 0]
PyStr(n) == [t |-> "str", v |-> n]
PyInt(n) == [t |-> "int", v |-> n]

\* Python's a != b between int, str and None: values of different types
\* are never equal.
PyNe(a, b) == ~(a.t = b.t /\ a.v = b.v)

None == <<>>
Some(x) == <<x>>
IsNone(o) == o = <<>>

Min(a, b) == IF a < b THEN a ELSE b

Last(s) == s[Len(s)]

\* f'Bearer {access_token}'
Bearer(tok) == <<"Bearer", tok>>

\* ---- what the servers may answer ------------------------------------------
OK == 200
UNAUTHORIZED == 401
TOO_MANY_REQUESTS == 429

\* statuses _get_request has no branch for (5xx: after the transport's retries)
OtherStatuses == {404, 503}

\* statuses of the token endpoint
TokenStatuses == {200, 400}

\* response.headers.get(...) is the header's text, or None when absent
\* (Ratelimit-Remaining, Ratelimit-Reset): both absent, quota used up, quota left
Headers == {<<PyNone, PyNone>>, <<PyStr(0), PyStr(1)>>, <<PyStr(1), PyStr(1)>>}

\* The JSON body of a data response: `id` tells the responses apart,
\* `data` is the list of records, `cursor` is pagination.cursor when present.
Records(id, n) == [i \in 1..n |-> <<id, i>>]
Body(id, n, has_cursor) ==
    [id |-> id, data |-> Records(id, n),
     cursor |-> IF has_cursor THEN Some(id) ELSE None]
NoBody == [id |-> 0, data |-> <<>>, cursor |-> None]

\* The token endpoint's answer: a success carries access_token; an error
\* body is whatever the server sends.
TokenResponses(tok) ==
    {[status |-> st, has_token |-> h, token |-> tok] :
        st \in TokenStatuses, h \in BOOLEAN} \ {[status |-> OK, has_token |-> FALSE, token |-> tok]}

VARIABLES
    self,        \* the HelixAPI object
    minted,      \* credentials minted so far by the token endpoint
    now,         \* time.time(), in tenths of a second
    pc,          \* "idle", "get", "page_recv", "follows_recv", "done"
    op,          \* the public call in progress
    caller,      \* who called _get_request: "public" or "_paginated_request"
    args,        \* its arguments
    endpoint,    \* _get_request's endpoint
    params,      \* the params dict (shared by callers and _get_request)
    ret,         \* what the last _get_request returned or raised
    result,      \* what the public call returned or raised
    responses_data, records_to_go, cap_records, max_records_per_page,
    log,         \* requests sent during the public call
    trace,       \* events of the current logical call of _get_request
    snap,        \* self when the latest credential refresh began
    cb_calls,    \* invocations of the callback in this logical call
    pages,       \* records received per page in this public call
    threads,     \* the threads inside _refresh_access_token, each with its locals
    completed,   \* the threads whose refresh has returned, in that order
    attrs        \* the instance attributes the object has been given so far

vars == <<self, minted, now, pc, op, caller, args, endpoint, params, ret, result,
          responses_data, records_to_go, cap_records, max_records_per_page,
          log, trace, snap, cb_calls, pages, threads, completed, attrs>>

pagevars == <<responses_data, records_to_go, cap_records, max_records_per_page, pages>>

\* what no method of a built client changes when called from one thread
convars == <<threads, completed, attrs>>

Ok(body) == [kind |-> "ok", err |-> "", body |-> body, data |-> body.data, exc_args |-> <<>>]
OkData(d) == [kind |-> "ok", err |-> "", body |-> NoBody, data |-> d, exc_args |-> <<>>]
\* `raise Exception`: the class itself is raised, so the exception is built
\* with no arguments and exc_args, its `args`, is the empty tuple.
Err(e) == [kind |-> "error", err |-> e, body |-> NoBody, data |-> <<>>, exc_args |-> <<>>]
Nothing == [kind |-> "none", err |-> "", body |-> NoBody, data |-> <<>>, exc_args |-> <<>>]

\* The arguments of a public call.  id: clip_id, video_ids, user_ids or
\* game_ids (a list, kept by its length); who: broadcaster_id or user_id;
\* game: game_id; logins, names, igdb: the other lists of get_users and
\* get_games; filter: the one of language, period, sort, video_type that
\* is given ("" when none is); cap: cap_records; access_token: the
\* access_token given to __init__.
NoArgs == [id |-> None, who |-> None, game |-> None, logins |-> None,
           names |-> None, igdb |-> None, filter |-> "", cap |-> None,
           access_token |-> None]

\* The params dict: q holds the entries the caller put in, first and after
\* the two keys _paginated_request writes.
Params(q) == [q |-> q, first |-> None, after |-> None]
NoParams == Params(NoArgs)

\* A thread that has not entered _refresh_access_token: token is its
\* response_data['access_token'], text the string it has formatted.
Threads == 1..NumThreads
Outside == [pc |-> "start", token |-> 0, text |-> Bearer(0)]

\* lines 42-49: the attributes __init__ has assigned when it reaches line 51
AttrsBeforeToken ==
    {"client_id", "client_secret", "access_token_refresh_callback",
     "_access_token_refreshed"}

\* lines 42-57: the instance attributes of a built client
AllAttrs == AttrsBeforeToken \cup {"access_token", "headers", "http"}

\* lines 102-105: the instance attributes _refresh_access_token reads before
\* the POST goes out
RefreshReadsFirst == {"client_id", "client_secret", "http"}

\* line 109: self.headers[...] = ... reads self.headers
RefreshReadsThen == {"headers"}

\* ---- HelixAPI.__init__ with an access_token given ---------------------------
Init ==
    /\ \E cb \in BOOLEAN :
          self = [access_token |-> 0,
                  headers |-> Bearer(0),
                  access_token_refresh_callback |-> cb,
                  _access_token_refreshed |-> FALSE,
                  _refresh_access_token |-> "method",
                  _ratelimit_remaining |-> PyInt(0),
                  _ratelimit_reset_timestamp |-> PyStr(0)]
    /\ minted = 0
    /\ now = 0
    /\ pc = "idle"
    /\ op = "none"
    /\ caller = "public"
    /\ args = NoArgs
    /\ endpoint = ""
    /\ params = NoParams
    /\ ret = Nothing
    /\ result = Nothing
    /\ responses_data = <<>>
    /\ records_to_go = 0
    /\ cap_records = None
    /\ max_records_per_page = 0
    /\ log = <<>>
    /\ trace = <<>>
    /\ snap = self
    /\ cb_calls = <<>>
    /\ pages = <<>>
    /\ threads = [t \in Threads |-> Outside]
    /\ completed = <<>>
    /\ attrs = AllAttrs

\* A client whose rate-limit fields hold what the caller of
\* _wait_for_rate_limit_reset finds there: a quota count and the text of a
\* reset time in whole seconds.
InitWait ==
    /\ \E rem \in {PyInt(0), PyInt(1)}, rst \in {PyStr(r) : r \in 0..MaxReset} :
          self = [access_token |-> 0,
                  headers |-> Bearer(0),
                  access_token_refresh_callback |-> FALSE,
                  _access_token_refreshed |-> FALSE,
                  _refresh_access_token |-> "method",
                  _ratelimit_remaining |-> rem,
                  _ratelimit_reset_timestamp |-> rst]
    /\ minted = 0
    /\ now = 0
    /\ pc = "idle"
    /\ op = "none"
    /\ caller = "public"
    /\ args = NoArgs
    /\ endpoint = ""
    /\ params = NoParams
    /\ ret = Nothing
    /\ result = Nothing
    /\ responses_data = <<>>
    /\ records_to_go = 0
    /\ cap_records = None
    /\ max_records_per_page = 0
    /\ log = <<>>
    /\ trace = <<>>
    /\ snap = self
    /\ cb_calls = <<>>
    /\ pages = <<>>
    /\ threads = [t \in Threads |-> Outside]
    /\ completed = <<>>
    /\ attrs = AllAttrs

\* ---- HelixAPI._wait_for_rate_limit_reset ------------------------------------
TicksPerSecond == 10
Margin == 1           \* the 0.1 of line 91, in tenths of a second

\* a wait that always adds the margin to the time left until the reset
WaitsTimeLeftPlusMargin(s, current_time) ==
    IF PyNe(s._ratelimit_remaining, PyInt(0))
    THEN [err |-> "RateLimitNotZero", sleep |-> 0]
    ELSE IF s._ratelimit_reset_timestamp.t = "None"
    THEN [err |-> "TypeError", sleep |-> 0]
    ELSE LET reset_time == s._ratelimit_reset_timestamp.v * TicksPerSecond
             left == reset_time - current_time
         IN  [err |-> "", sleep |-> (IF left > 0 THEN left ELSE 0) + Margin]

\* [err, sleep]: the exception raised ("" when none) and the time slept.
_wait_for_rate_limit_reset(s, current_time) ==
    IF PyNe(s._ratelimit_remaining, PyInt(0))
    THEN [err |-> "RateLimitNotZero", sleep |-> 0]
    ELSE IF s._ratelimit_reset_timestamp.t = "None"
    THEN [err |-> "TypeError", sleep |-> 0]         \* int(None)
    ELSE LET reset_time == s._ratelimit_reset_timestamp.v * TicksPerSecond
             wait_time == Margin + reset_time - current_time
         IN  [err |-> "", sleep |-> IF wait_time > 0 THEN wait_time ELSE 0]

\* ---- HelixAPI._refresh_access_token -----------------------------------------
\* Line 106 names response.raise_for_status without calling it: the status
\* of the exchange is never read.
StatusRaises(status) == FALSE

\* a refresh that forgets to set the guard
GuardNeverSet == FALSE

\* line 112
GuardAfterRefresh == TRUE

\* line 111: one invocation of the callback
Called(token, raised) == [token |-> token, raised |-> raised]

\* [self, err, cb]: the object afterwards, the exception raised ("" when
\* none) and the invocations of the callback.
_refresh_access_token(s, response, cb_raises) ==
    IF StatusRaises(response.status)
    THEN [self |-> s, err |-> "HTTPError", cb |-> <<>>]
    ELSE IF ~response.has_token
    THEN [self |-> s, err |-> "KeyError", cb |-> <<>>]    \* response_data['access_token']
    ELSE LET s1 == [s EXCEPT !.access_token = response.token,
                             !.headers = Bearer(response.token)]
         IN  IF ~s.access_token_refresh_callback
             THEN [self |-> [s1 EXCEPT !._access_token_refreshed = GuardAfterRefresh],
                   err |-> "", cb |-> <<>>]
             ELSE IF cb_raises
             THEN [self |-> s1, err |-> "CallbackError", cb |-> <<Called(response.token, TRUE)>>]
             ELSE [self |-> [s1 EXCEPT !._access_token_refreshed = GuardAfterRefresh],
                   err |-> "", cb |-> <<Called(response.token, FALSE)>>]

\* ---- _refresh_access_token run by several threads at once ----------------------
\* The method takes no lock, and the interpreter may switch threads between
\* any two bytecodes: each step below is one thing a thread does alone.
seqvars == <<now, pc, op, caller, args, endpoint, params, ret, result,
             responses_data, records_to_go, cap_records, max_records_per_page,
             log, trace, snap, cb_calls, pages, attrs>>

At(t, where) == threads[t].pc = where
Goto(t, where) == [threads EXCEPT ![t].pc = where]

\* lines 105-107: the exchange; the token endpoint mints a credential
RefreshPost(t) ==
    /\ At(t, "start")
    /\ minted < MaxTokens
    /\ minted' = minted + 1
    /\ threads' = [threads EXCEPT ![t].pc = "posted", ![t].token = minted + 1]
    /\ UNCHANGED <<self, completed, seqvars>>

\* line 108
RefreshStoreToken(t) ==
    /\ At(t, "posted")
    /\ self' = [self EXCEPT !.access_token = threads[t].token]
    /\ threads' = Goto(t, "stored")
    /\ UNCHANGED <<minted, completed, seqvars>>

\* line 109, right-hand side: f"Bearer {self.access_token}"
RefreshFormat(t) ==
    /\ At(t, "stored")
    /\ threads' = [threads EXCEPT ![t].pc = "formatted",
                                  ![t].text = Bearer(self.access_token)]
    /\ UNCHANGED <<self, minted, completed, seqvars>>

\* line 109, the store into self.headers
RefreshStoreHeader(t) ==
    /\ At(t, "formatted")
    /\ self' = [self EXCEPT !.headers = threads[t].text]
    /\ threads' = Goto(t, "headed")
    /\ UNCHANGED <<minted, completed, seqvars>>

\* lines 110-113: the callback returns, the guard is set, the method returns
RefreshReturn(t) ==
    /\ At(t, "headed")
    /\ self' = [self EXCEPT !._access_token_refreshed = GuardAfterRefresh]
    /\ threads' = Goto(t, "done")
    /\ completed' = Append(completed, t)
    /\ UNCHANGED <<minted, seqvars>>

\* ---- HelixAPI._get_request ----------------------------------------------------
\* An event of a logical call: "GET", "RESP" (n: status, h: the response's
\* Ratelimit-Remaining), "WAIT" (n: time slept), "POST", "TOKEN" (n: status).
Ev(e, n) == [e |-> e, n |-> n, h |-> PyNone]
Resp(status, rem) == [e |-> "RESP", n |-> status, h |-> rem]

\* a request that carries the header the call started with
GetSentStale == [m |-> "GET", endpoint |-> endpoint, params |-> params, auth |-> snap.headers]

\* line 138: the request that goes out
GetSent == [m |-> "GET", endpoint |-> endpoint, params |-> params, auth |-> self.headers]
PostSent == [m |-> "POST", endpoint |-> "TOKEN_URL", params |-> NoParams, auth |-> self.headers]

\* lines 139-140
Observe(s, rem, rst) ==
    [s EXCEPT !._ratelimit_remaining = rem, !._ratelimit_reset_timestamp = rst]

\* line 143
OnSuccess(s) == [s EXCEPT !._refresh_access_token = "False"]

\* a guard that is never consulted
NeverRefreshed(s) == FALSE

\* line 153
AlreadyRefreshed(s) == s._access_token_refreshed

\* The logical call ends: with a value for its caller, or with an exception
\* that no frame catches.
Finish(r) ==
    /\ ret' = r
    /\ IF r.kind = "ok" /\ caller = "_paginated_request"
       THEN pc' = "page_recv" /\ result' = result
       ELSE IF r.kind = "ok" /\ caller = "get_users_follows"
       THEN pc' = "follows_recv" /\ result' = result
       ELSE pc' = "done" /\ result' = r

CanSend == pc = "get" /\ Len(log) < MaxRequests /\ Len(pages) < MaxPages

\* lines 138-144: a 200
GetOk ==
    /\ CanSend
    /\ \E h \in Headers, n \in 0..MaxServed, has_cursor \in BOOLEAN :
          /\ self' = OnSuccess(Observe(self, h[1], h[2]))
          /\ log' = Append(log, GetSent)
          /\ trace' = trace \o <<Ev("GET", 0), Resp(OK, h[1])>>
          /\ Finish(Ok(Body(Len(log) + 1, n, has_cursor)))
    /\ UNCHANGED <<minted, now, op, caller, args, endpoint, params, pagevars, convars,
                   snap, cb_calls>>

\* lines 146-148: a 429
GetThrottled ==
    /\ CanSend
    /\ \E h \in Headers :
          LET s1 == Observe(self, h[1], h[2])
              w == _wait_for_rate_limit_reset(s1, now)
              got == trace \o <<Ev("GET", 0), Resp(TOO_MANY_REQUESTS, h[1])>>
          IN  /\ self' = s1
              /\ log' = Append(log, GetSent)
              /\ IF w.err # ""
                 THEN /\ trace' = got
                      /\ now' = now
                      /\ Finish(Err(w.err))
                 ELSE /\ trace' = got \o <<Ev("WAIT", w.sleep)>>
                      /\ now' = now + w.sleep
                      /\ UNCHANGED <<pc, ret, result>>
    /\ UNCHANGED <<minted, op, caller, args, endpoint, params, pagevars, convars,
                   snap, cb_calls>>

\* lines 150-158: a 401
GetUnauthorized ==
    /\ CanSend
    /\ \E h \in Headers :
          LET s1 == Observe(self, h[1], h[2])
              got == trace \o <<Ev("GET", 0), Resp(UNAUTHORIZED, h[1])>>
          IN  IF AlreadyRefreshed(s1)
              THEN /\ self' = s1
                   /\ log' = Append(log, GetSent)
                   /\ trace' = got
                   /\ Finish(Err("Unauthorized"))
                   /\ UNCHANGED <<minted, snap, cb_calls>>
              ELSE IF s1._refresh_access_token # "method"
              THEN \* self._refresh_access_token() on False: 'bool' is not callable
                   /\ self' = s1
                   /\ log' = Append(log, GetSent)
                   /\ trace' = got
                   /\ Finish(Err("TypeError"))
                   /\ UNCHANGED <<minted, snap, cb_calls>>
              ELSE /\ minted < MaxTokens
                   /\ Len(log) + 1 < MaxRequests
                   /\ \E response \in TokenResponses(minted + 1), cb_raises \in BOOLEAN :
                         LET r == _refresh_access_token(s1, response, cb_raises)
                         IN  /\ self' = r.self
                             /\ snap' = s1
                             /\ minted' = minted + 1
                             /\ cb_calls' = cb_calls \o r.cb
                             /\ log' = log \o <<GetSent, PostSent>>
                             /\ trace' = got \o <<Ev("POST", 0), Ev("TOKEN", response.status)>>
                             /\ IF r.err # ""
                                THEN Finish(Err(r.err))
                                ELSE UNCHANGED <<pc, ret, result>>
    /\ UNCHANGED <<now, op, caller, args, endpoint, params, pagevars, convars>>

\* response.reason, the reason text the server sends with the status
Reason(status) == IF status = 404 THEN "Not Found" ELSE "Service Unavailable"

\* lines 160-164: any other status; endpoint, params, status and reason go
\* to logger.error only, and the exception raised is a bare Exception
GetOther ==
    /\ CanSend
    /\ \E status \in OtherStatuses, h \in Headers :
          /\ self' = Observe(self, h[1], h[2])
          /\ log' = Append(log, GetSent)
          /\ trace' = trace \o <<Ev("GET", 0), Resp(status, h[1])>>
          /\ Finish(Err("UnhandledStatus"))
    /\ UNCHANGED <<minted, now, op, caller, args, endpoint, params, pagevars, convars,
                   snap, cb_calls>>

\* ---- HelixAPI.__init__, from the call of the class on -------------------------
\* HelixAPI(...) has been called and __init__ has not run yet.  The class
\* attributes of lines 22-23 are there; a field of `self` whose name is not
\* in attrs is not on the object.
InitNew ==
    /\ self = [access_token |-> 0,
               headers |-> Bearer(0),
               access_token_refresh_callback |-> FALSE,
               _access_token_refreshed |-> FALSE,
               _refresh_access_token |-> "method",
               _ratelimit_remaining |-> PyInt(0),
               _ratelimit_reset_timestamp |-> PyStr(0)]
    /\ attrs = {}
    /\ minted = 0
    /\ now = 0
    /\ pc = "new"
    /\ op = "none"
    /\ caller = "public"
    /\ args = NoArgs
    /\ endpoint = ""
    /\ params = NoParams
    /\ ret = Nothing
    /\ result = Nothing
    /\ responses_data = <<>>
    /\ records_to_go = 0
    /\ cap_records = None
    /\ max_records_per_page = 0
    /\ log = <<>>
    /\ trace = <<>>
    /\ snap = self
    /\ cb_calls = <<>>
    /\ pages = <<>>
    /\ threads = [t \in Threads |-> Outside]
    /\ completed = <<>>

\* lines 42-57.  With access_token None line 52 calls the refresh, which
\* reads self.http at line 105 and self.headers at line 109; an attribute
\* the object does not have raises AttributeError.  pc "failed": the
\* constructor has raised and there is no client.
__init__ ==
    /\ pc = "new"
    /\ \E access_token \in {None, Some(0)}, cb \in BOOLEAN :
          LET s0 == [self EXCEPT !.access_token_refresh_callback = cb,
                                !._access_token_refreshed = FALSE]
          IN  /\ op' = "__init__"
              /\ args' = [NoArgs EXCEPT !.access_token = access_token]
              /\ IF ~IsNone(access_token)
                 THEN \* lines 54-57
                      /\ self' = [s0 EXCEPT !.access_token = access_token[1],
                                            !.headers = Bearer(access_token[1])]
                      /\ attrs' = AllAttrs
                      /\ pc' = "idle"
                      /\ result' = Nothing
                      /\ UNCHANGED <<minted, log, trace, cb_calls>>
                 ELSE IF ~(RefreshReadsFirst \subseteq AttrsBeforeToken)
                 THEN \* line 105 raises before anything is sent
                      /\ self' = s0
                      /\ attrs' = AttrsBeforeToken
                      /\ pc' = "failed"
                      /\ result' = Err("AttributeError")
                      /\ UNCHANGED <<minted, log, trace, cb_calls>>
                 ELSE \* lines 105-112, then lines 56-57
                      \E response \in TokenResponses(minted + 1), cb_raises \in BOOLEAN :
                          LET r == _refresh_access_token(s0, response, cb_raises)
                              stored == r.self.access_token = response.token
                              err == IF stored /\ ~(RefreshReadsThen \subseteq AttrsBeforeToken)
                                     THEN "AttributeError"
                                     ELSE r.err
                          IN  /\ minted' = minted + 1
                              /\ log' = <<PostSent>>
                              /\ trace' = <<Ev("POST", 0), Ev("TOKEN", response.status)>>
                              /\ cb_calls' = IF err = "AttributeError" THEN <<>> ELSE r.cb
                              /\ self' = IF err = "AttributeError"
                                         THEN [s0 EXCEPT !.access_token = response.token]
                                         ELSE r.self
                              /\ attrs' = IF err = "" THEN AllAttrs
                                          ELSE IF stored
                                          THEN AttrsBeforeToken \cup {"access_token"}
                                          ELSE AttrsBeforeToken
                              /\ pc' = IF err = "" THEN "idle" ELSE "failed"
                              /\ result' = IF err = "" THEN Nothing ELSE Err(err)
    /\ snap' = self'
    /\ UNCHANGED <<now, caller, endpoint, params, ret, pagevars, threads, completed>>

\* ---- a caller of the client ------------------------------------------------------
Endpoints == {"games", "users"}
Queries == {[NoArgs EXCEPT !.who = Some(1)], [NoArgs EXCEPT !.game = Some(1)]}

\* A public call begins: nothing of an earlier call is kept but the object.
Begin(o, a) ==
    /\ pc = "idle"
    /\ op' = o
    /\ args' = a
    /\ log' = <<>>
    /\ pages' = <<>>

\* A logical call of _get_request begins.
Enter(e, p, c) ==
    /\ pc' = "get"
    /\ caller' = c
    /\ endpoint' = e
    /\ params' = p
    /\ trace' = <<>>
    /\ snap' = self
    /\ cb_calls' = <<>>

\* client._get_request(endpoint, params), called directly
Call_get_request ==
    /\ \E e \in Endpoints, q \in Queries :
          /\ Begin("_get_request", NoArgs)
          /\ Enter(e, Params(q), "public")
    /\ ret' = Nothing
    /\ result' = Nothing
    /\ UNCHANGED <<convars, self, minted, now, responses_data, records_to_go, cap_records,
                   max_records_per_page>>

\* The public call has returned or raised; the client is free again.
Return ==
    /\ pc = "done"
    /\ pc' = "idle"
    /\ op' = "none"
    /\ caller' = "public"
    /\ args' = NoArgs
    /\ endpoint' = ""
    /\ params' = NoParams
    /\ ret' = Nothing
    /\ result' = Nothing
    /\ responses_data' = <<>>
    /\ records_to_go' = 0
    /\ cap_records' = None
    /\ max_records_per_page' = 0
    /\ log' = <<>>
    /\ trace' = <<>>
    /\ snap' = self
    /\ cb_calls' = <<>>
    /\ pages' = <<>>
    /\ UNCHANGED <<convars, self, minted, now>>

\* time.time() moves on while the client is not in a call
Tick ==
    /\ pc = "idle"
    /\ now < MaxNow
    /\ now' = now + 1
    /\ UNCHANGED <<self, minted, pc, op, caller, args, endpoint, params, ret, result,
                   pagevars, convars, log, trace, snap, cb_calls>>

\* client._wait_for_rate_limit_reset(), called directly (lines 85-93); it
\* returns None, kept here as an empty value
Call_wait_for_rate_limit_reset ==
    /\ Begin("_wait_for_rate_limit_reset", NoArgs)
    /\ LET w == _wait_for_rate_limit_reset(self, now)
       IN  /\ now' = now + w.sleep
           /\ trace' = IF w.err = "" THEN <<Ev("WAIT", w.sleep)>> ELSE <<>>
           /\ result' = IF w.err = "" THEN OkData(<<>>) ELSE Err(w.err)
    /\ pc' = "done"
    /\ ret' = Nothing
    /\ snap' = self
    /\ cb_calls' = <<>>
    /\ UNCHANGED <<self, minted, caller, endpoint, params, responses_data, records_to_go,
                   cap_records, max_records_per_page, convars>>

\* ---- HelixAPI._paginated_request ----------------------------------------------
\* lines 192-195
InitialRecordsToGo(max, cap) == IF IsNone(cap) THEN max ELSE cap[1]

\* a loop test that also runs at zero
LoopContinuesAtZero(to_go, cap) == to_go >= 0 \/ IsNone(cap)

\* a loop test that forgets the unset cap
LoopContinuesCapped(to_go, cap) == to_go > 0

\* line 197
LoopContinues(to_go, cap) == to_go > 0 \/ IsNone(cap)

\* a page size that ignores what is left to fetch
FullPage(max, to_go) == max

\* line 198
PageSize(max, to_go) == Min(max, to_go)

\* an assignment where the code extends
Replace(list, more) == more

\* line 200
Extend(list, more) == list \o more

\* line 202
Decrement(to_go, data) == to_go - Len(data)

\* lines 197-199 and 212-213: the loop test, then either the next page's
\* request or the return.
LoopHead(p, to_go, cap, max, data) ==
    IF LoopContinues(to_go, cap)
    THEN /\ Enter(endpoint', [p EXCEPT !.first = Some(PageSize(max, to_go))],
                  "_paginated_request")
         /\ result' = Nothing
    ELSE /\ pc' = "done"
         /\ caller' = "_paginated_request"
         /\ params' = p
         /\ result' = OkData(data)
         /\ UNCHANGED <<trace, snap, cb_calls>>

Caps == {None} \cup {Some(c) : c \in (0 - 1)..MaxCap}

\* lines 190-199: _paginated_request is entered
Paginate(e, p, max, cap) ==
    /\ endpoint' = e
    /\ responses_data' = <<>>
    /\ cap_records' = cap
    /\ max_records_per_page' = max
    /\ records_to_go' = InitialRecordsToGo(max, cap)
    /\ LoopHead(p, InitialRecordsToGo(max, cap), cap, max, <<>>)
    /\ ret' = Nothing
    /\ UNCHANGED <<convars, self, minted, now>>

\* client._paginated_request(endpoint, params, max_records_per_page, cap_records)
Call_paginated_request ==
    \E e \in {"clips"}, q \in {[NoArgs EXCEPT !.game = Some(1)]},
       max \in 1..MaxPageSize, cap \in Caps :
          /\ Begin("_paginated_request", [NoArgs EXCEPT !.cap = cap])
          /\ Paginate(e, Params(q), max, cap)

\* lines 200-210: a page has come back
PageRecv ==
    /\ pc = "page_recv"
    /\ LET response == ret.body
           data == Extend(responses_data, response.data)
           to_go == Decrement(records_to_go, response.data)
       IN  /\ responses_data' = data
           /\ records_to_go' = to_go
           /\ pages' = Append(pages, [data |-> response.data,
                                      cursor |-> ~IsNone(response.cursor),
                                      first |-> params.first[1]])
           /\ endpoint' = endpoint
           /\ IF ~IsNone(response.cursor)
              THEN LoopHead([params EXCEPT !.after = response.cursor], to_go,
                            cap_records, max_records_per_page, data)
              ELSE \* no cursor: break
                   /\ pc' = "done"
                   /\ result' = OkData(data)
                   /\ UNCHANGED <<caller, params, trace, snap, cb_calls>>
    /\ UNCHANGED <<convars, self, minted, now, op, args, ret, log, cap_records,
                   max_records_per_page>>

\* ---- the endpoint methods ---------------------------------------------------------
MAX_IDS == 100
HELIX_PAGE == 100

\* list lengths and arguments tried
IdCounts == {None} \cup {Some(n) : n \in {0, 1, MAX_IDS, MAX_IDS + 1}}
Opt == {None, Some(1)}
PublicCaps == {None, Some(1)}
Filters == {"", "language", "period", "sort", "video_type"}

B(b) == IF b THEN 1 ELSE 0
Given(o) == ~IsNone(o)
Count(o) == IF IsNone(o) THEN 0 ELSE o[1]

\* what goes into params: every argument but cap_records
Query(a) == [a EXCEPT !.cap = None]

\* The method raises before it sends anything.
Raise(e) ==
    /\ pc' = "done"
    /\ result' = Err(e)
    /\ ret' = Nothing
    /\ UNCHANGED <<convars, self, minted, now, caller, endpoint, params, responses_data,
                   records_to_go, cap_records, max_records_per_page, trace, snap,
                   cb_calls>>

\* The method calls _get_request itself.
Get(e, p) ==
    /\ Enter(e, p, "public")
    /\ ret' = Nothing
    /\ result' = Nothing
    /\ UNCHANGED <<convars, self, minted, now, responses_data, records_to_go, cap_records,
                   max_records_per_page>>

\* lines 298-301: "" when the arguments pass
get_clips_error(a) ==
    IF Given(a.id) /\ Count(a.id) > MAX_IDS THEN "ValueError"
    ELSE IF B(Given(a.id)) + B(Given(a.who)) + B(Given(a.game)) # 1 THEN "ValueError"
    ELSE ""

\* lines 271-313
get_clips ==
    \E id \in IdCounts, who \in Opt, game \in Opt, cap \in PublicCaps :
        LET a == [NoArgs EXCEPT !.id = id, !.who = who, !.game = game, !.cap = cap]
        IN  /\ Begin("get_clips", a)
            /\ IF get_clips_error(a) # ""
               THEN Raise(get_clips_error(a))
               ELSE Paginate("clips", Params(Query(a)), HELIX_PAGE, cap)

\* lines 568-581: "" when the arguments pass
get_videos_error(a) ==
    IF Given(a.id) /\ Count(a.id) > MAX_IDS THEN "ValueError"
    ELSE IF B(Given(a.id)) + B(Given(a.who)) + B(Given(a.game)) # 1 THEN "ValueError"
    ELSE IF a.filter = "language" /\ ~Given(a.game) THEN "ValueError"
    ELSE IF a.filter = "period" /\ ~Given(a.game) /\ ~Given(a.who) THEN "ValueError"
    ELSE IF a.filter = "sort" /\ ~Given(a.game) /\ ~Given(a.who) THEN "ValueError"
    ELSE IF a.filter = "video_type" /\ ~Given(a.game) /\ ~Given(a.who) THEN "ValueError"
    ELSE IF Given(a.cap) /\ ~Given(a.game) /\ ~Given(a.who) THEN "ValueError"
    ELSE ""

\* lines 529-599
get_videos ==
    \E id \in IdCounts, who \in Opt, game \in Opt, f \in Filters, cap \in PublicCaps :
        LET a == [NoArgs EXCEPT !.id = id, !.who = who, !.game = game,
                                !.filter = f, !.cap = cap]
        IN  /\ Begin("get_videos", a)
            /\ IF get_videos_error(a) # ""
               THEN Raise(get_videos_error(a))
               ELSE IF Given(id)
               THEN Get("videos", Params(Query(a)))
               ELSE Paginate("videos", Params(Query(a)), HELIX_PAGE, cap)

\* a check that counts the user IDs alone
get_users_error_ids_only(a) ==
    IF ~Given(a.id) /\ ~Given(a.logins) THEN "ValueError"
    ELSE IF Count(a.id) > MAX_IDS THEN "ValueError"
    ELSE ""

\* lines 460-467 (the arguments are lists or None): "" when they pass
get_users_error(a) ==
    IF ~Given(a.id) /\ ~Given(a.logins) THEN "ValueError"
    ELSE IF Count(a.id) + Count(a.logins) > MAX_IDS THEN "ValueError"
    ELSE ""

\* lines 441-472
get_users ==
    \E id \in IdCounts, logins \in IdCounts :
        LET a == [NoArgs EXCEPT !.id = id, !.logins = logins]
        IN  /\ Begin("get_users", a)
            /\ IF get_users_error(a) # ""
               THEN Raise(get_users_error(a))
               ELSE Get("users", Params(Query(a)))

\* lines 344-350: "" when the arguments pass
get_games_error(a) ==
    IF ~Given(a.id) /\ ~Given(a.names) /\ ~Given(a.igdb) THEN "ValueError"
    ELSE IF Count(a.id) + Count(a.names) + Count(a.igdb) > MAX_IDS THEN "ValueError"
    ELSE ""

\* lines 334-359
get_games ==
    \E id \in IdCounts, names \in IdCounts, igdb \in IdCounts :
        LET a == [NoArgs EXCEPT !.id = id, !.names = names, !.igdb = igdb]
        IN  /\ Begin("get_games", a)
            /\ IF get_games_error(a) # ""
               THEN Raise(get_games_error(a))
               ELSE Get("games", Params(Query(a)))

\* line 497
FOLLOWS_PAGE == 100

FollowsCaps == {None} \cup {Some(c) : c \in {0, 1, FOLLOWS_PAGE, FOLLOWS_PAGE + 1}}

\* lines 494-495: "" when the arguments pass (who: from_id, id: to_id)
get_users_follows_error(a) ==
    IF ~Given(a.who) /\ ~Given(a.id) THEN "ValueError" ELSE ""

\* line 507: the test that picks the single request
OverPage(cap) == (IF IsNone(cap) THEN 1 ELSE cap[1]) > FOLLOWS_PAGE

\* lines 475-510: up to the first request
get_users_follows ==
    \E from_id \in Opt, to_id \in Opt, cap \in FollowsCaps :
        LET a == [NoArgs EXCEPT !.who = from_id, !.id = to_id, !.cap = cap]
            p == [Params(Query(a)) EXCEPT !.first = Some(1)]
        IN  /\ Begin("get_users_follows", a)
            /\ IF get_users_follows_error(a) # ""
               THEN Raise(get_users_follows_error(a))
               ELSE IF OverPage(cap)
               THEN Get("users/follows", [p EXCEPT !.first = cap])
               ELSE /\ Enter("users/follows", p, "get_users_follows")
                    /\ ret' = Nothing
                    /\ result' = Nothing
                    /\ UNCHANGED <<convars, self, minted, now, responses_data,
                                   records_to_go, cap_records, max_records_per_page>>

\* lines 511-519: the initial response is in; its 'total' is kept and the
\* records are fetched by _paginated_request with the same params dict
FollowsRecv ==
    /\ pc = "follows_recv"
    /\ Paginate("user/follows", params, FOLLOWS_PAGE, args.cap)
    /\ UNCHANGED <<op, args, log, pages>>

Next ==
    \/ Call_get_request
    \/ GetOk
    \/ GetThrottled
    \/ GetUnauthorized
    \/ GetOther
    \/ Return

Spec == Init /\ [][Next]_vars

NextPaginate ==
    \/ Call_paginated_request
    \/ PageRecv
    \/ GetOk
    \/ GetThrottled
    \/ GetUnauthorized
    \/ GetOther

SpecPaginate == Init /\ [][NextPaginate]_vars

NextThreads ==
    \E t \in Threads :
        \/ RefreshPost(t)
        \/ RefreshStoreToken(t)
        \/ RefreshFormat(t)
        \/ RefreshStoreHeader(t)
        \/ RefreshReturn(t)

SpecThreads == Init /\ [][NextThreads]_vars

NextWait ==
    \/ Tick
    \/ Call_wait_for_rate_limit_reset
    \/ Return

SpecWait == InitWait /\ [][NextWait]_vars

NextEndpoints ==
    \/ get_clips
    \/ get_videos
    \/ get_users
    \/ get_games
    \/ PageRecv
    \/ GetOk
    \/ GetThrottled
    \/ GetUnauthorized
    \/ GetOther

SpecEndpoints == Init /\ [][NextEndpoints]_vars

NextFollows ==
    \/ get_users_follows
    \/ FollowsRecv
    \/ PageRecv
    \/ GetOk
    \/ GetThrottled
    \/ GetUnauthorized
    \/ GetOther

SpecFollows == Init /\ [][NextFollows]_vars

NextNew ==
    \/ __init__
    \/ Call_get_request
    \/ GetOk
    \/ GetThrottled
    \/ GetUnauthorized
    \/ GetOther
    \/ Return

SpecNew == InitNew /\ [][NextNew]_vars

\* ---- properties of one logical call of _get_request --------------------------
Pos == 1..Len(trace)
IsResp(j, status) == j \in Pos /\ trace[j].e = "RESP" /\ trace[j].n = status
IsEv(j, e) == j \in Pos /\ trace[j].e = e
Refreshes == Cardinality({j \in Pos : trace[j].e = "POST"})
Gets == {k \in 1..Len(log) : log[k].m = "GET"}
FirstUnauthorized(j) ==
    IsResp(j, UNAUTHORIZED) /\ \A i \in 1..(j - 1) : ~IsResp(i, UNAUTHORIZED)
SameRequest(a, b) == a.endpoint = b.endpoint /\ a.params = b.params

\* C1: in every logical call of _get_request, also after earlier successful
\* calls on the same client, the first 401 of the call is followed by one
\* credential refresh; after a successful refresh the same endpoint and
\* params are sent again, and if that retry is answered 200 the call returns
\* the retry's body.
C1_FirstUnauthorizedRefreshesAndRetries ==
    op = "_get_request" =>
    \A j \in Pos : FirstUnauthorized(j) =>
        /\ IsEv(j + 1, "POST")
        /\ IsEv(j + 2, "TOKEN")
        /\ (trace[j + 2].n = OK /\ result.err # "CallbackError") =>
              /\ Len(trace) = j + 2 => pc = "get"
              /\ Len(trace) > j + 2 => IsEv(j + 3, "GET")
              /\ \A a, b \in Gets : SameRequest(log[a], log[b])
              /\ IsResp(j + 4, OK) =>
                    /\ pc = "done"
                    /\ result.kind = "ok"
                    /\ result.body.id = Len(log)

\* C2: within one logical call, a 401 that arrives after a refresh was
\* performed in that call ends the call with the authorization error, and
\* nothing is sent after it: the 401 is the call's last event.
C2_SecondUnauthorizedFails ==
    \A i, j \in Pos : (i < j /\ IsEv(i, "POST") /\ IsResp(j, UNAUTHORIZED)) =>
        /\ j = Len(trace)
        /\ pc = "done"
        /\ result = Err("Unauthorized")
        /\ Last(log).m = "GET"

C2_Witness ==
    /\ op = "_get_request"
    /\ pc = "done"
    /\ result = Err("Unauthorized")
    /\ \E i \in Pos : IsEv(i, "POST")
    /\ IsResp(Len(trace), UNAUTHORIZED)

\* C3: in every logical call of _get_request, whatever the responses, the
\* credential refresh is invoked at most once.
C3_AtMostOneRefresh == Refreshes <= 1

C3_Witness ==
    /\ op = "_get_request"
    /\ pc = "done"
    /\ result.kind = "ok"
    /\ Refreshes = 1

\* C4: a 429 whose Ratelimit-Remaining header reports zero is followed by
\* exactly one wait and then by the same request again; if that retry is
\* answered 200 the call returns the retry's body.
C4_ThrottledWaitsOnceAndRetries ==
    \A j \in Pos : (IsResp(j, TOO_MANY_REQUESTS) /\ trace[j].h = PyStr(0)) =>
        /\ IsEv(j + 1, "WAIT")
        /\ Len(trace) = j + 1 => pc = "get"
        /\ Len(trace) > j + 1 => IsEv(j + 2, "GET")
        /\ \A a, b \in Gets : SameRequest(log[a], log[b])
        /\ IsResp(j + 3, OK) =>
              /\ pc = "done"
              /\ result.kind = "ok"
              /\ result.body.id = Len(log)

\* C10: when the token exchange answers with a non-success status the
\* refresh fails on that status: the call ends with the error the status
\* check raises, access_token and the Authorization header are as before
\* the refresh, the callback was not invoked and the already-refreshed
\* guard was not set.
C10_FailedExchangeLeavesCredential ==
    \A j \in Pos : (IsEv(j, "TOKEN") /\ trace[j].n # OK) =>
        /\ pc = "done"
        /\ result = Err("HTTPError")
        /\ self.access_token = snap.access_token
        /\ self.headers = snap.headers
        /\ self._access_token_refreshed = snap._access_token_refreshed
        /\ cb_calls = <<>>

\* C13: a response whose status is none of 200, 401 and 429 ends the logical
\* call: it is the last event of the call, nothing is sent after it, and the
\* call raises an error that carries the endpoint, the parameters, the
\* status code and the server's reason text.
C13_OtherStatusRaisesRequestError ==
    \A j \in Pos : (trace[j].e = "RESP" /\ trace[j].n \in OtherStatuses) =>
        /\ j = Len(trace)
        /\ pc = "done"
        /\ Last(log) = GetSent
        /\ result.kind = "error"
        /\ result.exc_args = <<endpoint, params, trace[j].n, Reason(trace[j].n)>>

\* C14: whenever _get_request has returned a body after a 200, the guard
\* _access_token_refreshed is False and _refresh_access_token is still the
\* method, so a later 401 can refresh again.
C14_SuccessResetsGuard ==
    (op = "_get_request" /\ pc = "done" /\ result.kind = "ok") =>
        /\ ~self._access_token_refreshed
        /\ self._refresh_access_token = "method"

\* C16: a step that records a response carrying neither Ratelimit-Remaining
\* nor Ratelimit-Reset leaves _ratelimit_remaining and
\* _ratelimit_reset_timestamp as they were.
C16_AbsentHeadersKeepState ==
    [][(/\ Len(trace') >= Len(trace) + 2
        /\ trace'[Len(trace) + 2].e = "RESP"
        /\ trace'[Len(trace) + 2].h = PyNone) =>
            /\ self'._ratelimit_remaining = self._ratelimit_remaining
            /\ self'._ratelimit_reset_timestamp = self._ratelimit_reset_timestamp]_vars

\* a direct call of _wait_for_rate_limit_reset that got past the quota test
WaitReturned == op = "_wait_for_rate_limit_reset" /\ pc = "done" /\ result.kind = "ok"
Slept == trace[1].n
CalledAt == now - Slept
ResetAt == self._ratelimit_reset_timestamp.v * TicksPerSecond
AtLeastZero(n) == IF n > 0 THEN n ELSE 0

\* C17: the wait of _wait_for_rate_limit_reset lasts
\* max(0, reset_timestamp - now) + margin; when the reset time is already
\* in the past it is exactly the margin.
C17_WaitIsTimeLeftPlusMargin ==
    WaitReturned => Slept = AtLeastZero(ResetAt - CalledAt) + Margin

\* C17 amended: the wait lasts max(0, reset_timestamp + margin - now): the
\* call sleeps until the margin after the reset time, and does not sleep
\* when that moment has passed.
C17_WaitUntilMarginAfterReset ==
    WaitReturned => Slept = AtLeastZero(ResetAt + Margin - CalledAt)

C17_Witness ==
    /\ WaitReturned
    /\ CalledAt > 0
    /\ ResetAt > CalledAt
    /\ Slept = ResetAt - CalledAt + Margin

\* C18: every request _get_request sends carries 'Bearer ' plus the
\* access_token stored at that moment, and the request that follows a refresh
\* carries the credential that refresh stored, not the one the server has
\* just rejected.
C18_RequestsCarryCurrentCredential ==
    /\ [][(Len(log') > Len(log) /\ log'[Len(log) + 1].m = "GET") =>
             log'[Len(log) + 1].auth = Bearer(self.access_token)]_vars
    /\ [](\A k \in 3..Len(log) : (log[k].m = "GET" /\ log[k - 1].m = "POST") =>
             /\ log[k].auth = Bearer(self.access_token)
             /\ log[k].auth # log[k - 2].auth)

C18_Witness ==
    /\ op = "_get_request"
    /\ pc = "done"
    /\ result.kind = "ok"
    /\ Len(log) = 3
    /\ log[2].m = "POST"
    /\ log[1].auth = Bearer(0)
    /\ log[3].auth = Bearer(1)
    /\ self.access_token = 1

\* C11: when the refresh callback raises, the refresh is not aborted: the
\* new credential is stored, the Authorization header carries it, the guard
\* is set, and the enclosing _get_request does not fail on the callback but
\* goes on to send the request again.
C11_CallbackFailureDoesNotAbort ==
    \A k \in 1..Len(cb_calls) : cb_calls[k].raised =>
        /\ self.access_token = cb_calls[k].token
        /\ self.headers = Bearer(cb_calls[k].token)
        /\ self._access_token_refreshed
        /\ result.err # "CallbackError"
        /\ pc = "get" \/ IsEv(Len(trace) - 1, "GET")

\* C12: under any interleaving of concurrent refreshes on one client, once
\* all have returned, access_token and the Authorization header both hold
\* the credential minted for the refresh that returned last.
C12_LastRefreshWins ==
    (\A t \in Threads : At(t, "done")) =>
        /\ self.access_token = threads[Last(completed)].token
        /\ self.headers = Bearer(threads[Last(completed)].token)

\* ---- properties of _paginated_request -----------------------------------------
Paginating == op = "_paginated_request"
Capped == ~IsNone(cap_records)
InFlight == pc \in {"get", "page_recv"}
Returned == pc = "done" /\ result.kind = "ok"

RECURSIVE Flatten(_)
Flatten(ps) ==
    IF ps = <<>> THEN <<>>
    ELSE Flatten(SubSeq(ps, 1, Len(ps) - 1)) \o ps[Len(ps)].data

RECURSIVE Received(_)
Received(k) == IF k = 0 THEN 0 ELSE Received(k - 1) + Len(pages[k].data)

Ceil(a, b) == (a + b - 1) \div b

\* page k ends the pagination: no cursor, or the cap is reached
Stops(k) == ~pages[k].cursor \/ Received(k) >= cap_records[1]

AtMostRequested == \A k \in 1..Len(pages) : Len(pages[k].data) <= pages[k].first
ServerExact ==
    \A k \in 1..Len(pages) : Len(pages[k].data) = pages[k].first /\ pages[k].cursor

\* C5: with a cap, when no response carries more records than requested, the
\* returned list is the pages' records in order (as many as the pages hold
\* together), and a further request is issued after a page exactly when that
\* page carried a cursor and left the accumulated count below the cap: the
\* last request is the first whose response omits the cursor or reaches the cap.
C5_CappedPagination ==
    (Paginating /\ Capped /\ AtMostRequested) =>
        /\ \A k \in 1..(Len(pages) - 1) : ~Stops(k)
        /\ InFlight => \A k \in 1..Len(pages) : ~Stops(k)
        /\ Returned =>
              /\ result.data = Flatten(pages)
              /\ Len(result.data) = Received(Len(pages))
              /\ pages # <<>> => Stops(Len(pages))
              /\ pages = <<>> => cap_records[1] <= 0

C5_Witness ==
    /\ Paginating /\ Capped /\ AtMostRequested /\ Returned
    /\ Len(pages) = 3
    /\ pages[3].cursor
    /\ Received(3) = cap_records[1]
    /\ \E k \in 1..3 : Len(pages[k].data) < pages[k].first

\* C6: with cap C > 0 and page size S, when every page carries exactly the
\* requested number of records and a cursor, the call asks for ceil(C/S)
\* pages (that many requests when none is retried), S records on every page
\* but the last and C - S*(ceil(C/S)-1) on the last, and returns C records.
C6_ExactPages ==
    (Paginating /\ Capped /\ cap_records[1] > 0 /\ ServerExact) =>
        LET C == cap_records[1]
            S == max_records_per_page
            N == Ceil(C, S)
        IN  /\ Len(pages) <= N
            /\ InFlight => Len(pages) < N
            /\ Returned =>
                  /\ Len(pages) = N
                  /\ \A k \in 1..(N - 1) : pages[k].first = S
                  /\ pages[N].first = C - S * (N - 1)
                  /\ Len(result.data) = C
                  /\ Cardinality(Gets) = Len(log) => Len(log) = N

C6_Witness ==
    /\ Paginating /\ Returned /\ ServerExact
    /\ cap_records = Some(5)
    /\ max_records_per_page = 2
    /\ Len(log) = 3
    /\ Len(result.data) = 5

\* C7: with cap_records equal to 0 the call returns an empty list and
\* issues no request.
C7_ZeroCapNoRequest ==
    (Paginating /\ cap_records = Some(0)) =>
        /\ pc = "done"
        /\ result = OkData(<<>>)
        /\ log = <<>>
        /\ pages = <<>>

C7_Witness == Paginating /\ cap_records = Some(0) /\ pc = "done" /\ result.kind = "ok"

\* C8 as stated: with cap_records unset the call fetches exactly one page,
\* one request, even when the response carries a cursor (stated for a
\* first page that comes back full, where nothing is left to fetch of it).
C8_UnsetCapFetchesOnePage ==
    (/\ Paginating
     /\ IsNone(cap_records)
     /\ pages # <<>>
     /\ Len(pages[1].data) = max_records_per_page) =>
        /\ Len(pages) = 1
        /\ pc = "done"
        /\ result.data = pages[1].data

\* C8 amended: with cap_records unset the call asks for the next page as long
\* as the latest response carried a cursor and stops at the first response
\* without one; it returns the records of all the pages it fetched.
C8_UnsetCapFollowsCursor ==
    (Paginating /\ IsNone(cap_records)) =>
        /\ \A k \in 1..(Len(pages) - 1) : pages[k].cursor
        /\ InFlight => \A k \in 1..Len(pages) : pages[k].cursor
        /\ Returned =>
              /\ pages # <<>>
              /\ ~pages[Len(pages)].cursor
              /\ result.data = Flatten(pages)

C8_Witness ==
    /\ Paginating /\ IsNone(cap_records) /\ Returned
    /\ Len(pages) = 3
    /\ records_to_go < 0

\* what C15 says request number k of the pagination asks for
FirstExpected(k) ==
    IF Capped
    THEN Min(max_records_per_page, cap_records[1] - Received(k - 1))
    ELSE max_records_per_page

\* C15: every request of _paginated_request asks for
\* min(max_records_per_page, records_to_go) records when a cap is set and for
\* max_records_per_page when none is; 'first' is never zero or negative.
C15_FirstIsPositivePageSize ==
    Paginating =>
        /\ \A k \in 1..Len(pages) :
              pages[k].first = FirstExpected(k) /\ pages[k].first > 0
        /\ \A k \in Gets :
              log[k].params.first[1] > 0
        /\ pc = "get" => params.first = Some(FirstExpected(Len(pages) + 1))

\* C20: with a finite cap _paginated_request terminates whatever the
\* successful responses are, pages with a cursor and no records included.
\* The server is free to repeat an answer, so the loop terminates on every
\* sequence of answers only if records_to_go is a variant: every page that
\* is followed by another request has brought it down.
C20_CappedPaginationTerminates ==
    (Paginating /\ Capped) =>
        \A k \in 1..Len(pages) :
            (k < Len(pages) \/ pc = "get") => Received(k) > Received(k - 1)

\* ---- properties of the endpoint methods ----------------------------------------
EndpointOps == {"get_clips", "get_videos", "get_users", "get_games"}
Selected == B(Given(args.id)) + B(Given(args.who)) + B(Given(args.game))
Identifiers ==
    Count(args.id) + Count(args.logins) + Count(args.names) + Count(args.igdb)

\* the call breaks one of the rules C9 lists
Invalid ==
    \/ Identifiers > 100
    \/ op \in {"get_clips", "get_videos"} /\ Selected # 1
    \/ op = "get_users" /\ ~Given(args.id) /\ ~Given(args.logins)
    \/ op = "get_games" /\ ~Given(args.id) /\ ~Given(args.names) /\ ~Given(args.igdb)

\* get_videos' further rules: a filter or a cap needs game_id or user_id
Misfiltered ==
    /\ op = "get_videos"
    /\ \/ args.filter = "language" /\ ~Given(args.game)
       \/ args.filter # "" /\ ~Given(args.game) /\ ~Given(args.who)
       \/ Given(args.cap) /\ ~Given(args.game) /\ ~Given(args.who)

\* C9: get_clips, get_videos, get_users and get_games raise the validation
\* error and send nothing when more than 100 identifiers are passed, when
\* the selectors id / broadcaster-or-user / game are not exactly one, or when
\* no required selector is set; a request is sent only by a call whose
\* arguments passed every check.
C9_ValidationBeforeRequests ==
    op \in EndpointOps =>
        /\ Invalid => pc = "done" /\ result = Err("ValueError") /\ log = <<>>
        /\ (log # <<>> \/ pc \in {"get", "page_recv"}) => ~Invalid /\ ~Misfiltered

C9_Witness ==
    /\ op = "get_users"
    /\ Count(args.id) = 100
    /\ Count(args.logins) = 1
    /\ pc = "done"
    /\ result = Err("ValueError")
    /\ log = <<>>

\* C19: get_users_follows sends one request when the cap is at most the page
\* maximum; when the cap is larger it sends an initial request and then
\* paginated requests; every request goes to the endpoint of the first.
C19_FollowsSingleOrPaginated ==
    op = "get_users_follows" =>
        /\ (Given(args.cap) /\ args.cap[1] <= FOLLOWS_PAGE) =>
              \A i, j \in Gets : SameRequest(log[i], log[j])
        /\ (Given(args.cap) /\ args.cap[1] > FOLLOWS_PAGE /\ Returned) =>
              pages # <<>>
        /\ \A k \in Gets : log[k].endpoint = log[1].endpoint

\* ---- properties of __init__ ----------------------------------------------------
\* C21: constructing a client without an access_token completes: the HTTP
\* session and the headers the refresh uses are there before it runs, one
\* token exchange is sent, and afterwards the client holds the minted
\* credential and carries it in its Authorization header.
C21_ConstructionWithoutToken ==
    (op = "__init__" /\ IsNone(args.access_token)) =>
        /\ pc = "idle"
        /\ result.kind # "error"
        /\ RefreshReadsFirst \cup RefreshReadsThen \subseteq attrs
        /\ Len(log) = 1 /\ log[1].m = "POST"
        /\ minted = 1
        /\ self.access_token = minted
        /\ self.headers = Bearer(minted)

====
